---------------------------- MODULE Spec2Model ----------------------------
(* Bulk employee onboarding pipeline of the corporate wellness portal:     *)
(* BulkOnboardingService (src/services/claude-ai.js, lines 1753-2527),     *)
(* its routes (src/routes/analytics.js, lines 572-875) and the Redis       *)
(* manager it stores job and batch status in (src/utils/redis.js).         *)
EXTENDS Integers, Naturals, Sequences, FiniteSets, Bags, TLC

(***************************************************************************)
(* Bounds of the model                                                     *)
(***************************************************************************)
\* Date.now() is modelled as a clock of ticks 0..MaxTime
MaxTime == 2
\* number of upload requests in one behaviour
MaxUploads == 1
\* the 86400 s retention passed to setex, in clock ticks
TTL == 2
\* this.batchSize (1000 in the source), scaled to the rosters of the model
batchSize == 2
\* companies.max_employees of every tenant of the model
TenantMaxEmployees == 2
\* number of rows of the rosters given to validateEmployeeData directly
MaxRows == 3
\* length of the arrays and batch sizes given to createBatches directly
MaxItems == 5
MaxBatchSize == 3
\* length of the lists the AI service answers with, when called directly
MaxRecs == 4
\* number of direct calls of getFallbackRecommendations in one behaviour
MaxCalls == 2

(***************************************************************************)
(* Program constants                                                       *)
(***************************************************************************)
maxConcurrentJobs == 10
attempts == 3

Tenants == {"tA", "tB"}

(***************************************************************************)
(* Employee records as parseCSV/normalizeEmployeeData deliver them.  An    *)
(* email is a sequence of characters so that isValidEmail is computed.     *)
(***************************************************************************)
mailA == <<"a", "@", "x", ".", "c">>
mailB == <<"b", "@", "x", ".", "c">>
mailS == <<"s", "@", "x", ".", "c">>
mailBad == <<"a", "x", ".", "c">>
noMail == <<>>

Emp(email, first, last, age, gender, marital, dept, spouse, spouseEmail, health) ==
    [email |-> email, firstName |-> first, lastName |-> last, age |-> age,
     gender |-> gender, maritalStatus |-> marital, department |-> dept,
     includeSpouse |-> spouse, spouseEmail |-> spouseEmail,
     healthConditions |-> health]

\* age 0, "" and <<>> stand for the falsy values null / undefined / ''
empA == Emp(mailA, "Ann", "Lee", 50, "female", "married", "hr", TRUE, mailS, <<>>)
empB == Emp(mailB, "Bob", "Ray", 30, "male", "single", "sales", FALSE, noMail, <<>>)
empC == Emp(mailS, "Cy", "Fox", 0, "", "", "", FALSE, noMail, <<>>)
empNoMail == Emp(noMail, "Cat", "Doe", 0, "", "", "", FALSE, noMail, <<>>)
empBadMail == Emp(mailBad, "Dan", "Poe", 0, "", "", "", FALSE, noMail, <<>>)
empNoName == Emp(mailB, "", "Ray", 0, "", "", "", FALSE, noMail, <<>>)
empD == Emp(mailB, "Dee", "Kay", 52, "female", "married", "Sales", TRUE, mailS,
            <<"Alcohol">>)
empE == Emp(mailS, "Eve", "Orr", 30, "female", "married", "finance", FALSE, noMail,
            <<>>)
\* women of 50 without spouse access, and of 45 with it
empG == Emp(mailB, "Gia", "Roe", 50, "female", "single", "hr", FALSE, noMail, <<>>)
empH == Emp(mailB, "Hua", "Lin", 45, "female", "married", "hr", TRUE, mailS, <<>>)
\* another employee with the profile of empD
empF == Emp(mailA, "Fay", "Ash", 52, "female", "married", "Sales", TRUE, mailS,
            <<"Alcohol">>)

\* a CSV file: the rows csv-parser delivers, and whether the stream ends in
\* 'end' (ok) or, after those rows, in 'error'
Csv(rows) == [ok |-> TRUE, rows |-> rows]
Malformed == [ok |-> FALSE, rows |-> <<empA>>]

Options == [dryRun : BOOLEAN]

Min(a, b) == IF a <= b THEN a ELSE b

(***************************************************************************)
(* normalizeEmployeeData: email is row.email?.toLowerCase().trim()         *)
(***************************************************************************)
\* a row of the file whose email was typed in capitals, with a blank after it
mailAUpper == <<"A", "@", "X", ".", "c", " ">>
empAUpper == Emp(mailAUpper, "Amy", "Lee", 0, "", "", "", FALSE, noMail, <<>>)

lowerChar(c) ==
    CASE c = "A" -> "a"
      [] c = "X" -> "x"
      [] OTHER -> c

RECURSIVE trimStart(_)
trimStart(s) == IF s # <<>> /\ Head(s) = " " THEN trimStart(Tail(s)) ELSE s

RECURSIVE trimEnd(_)
trimEnd(s) ==
    IF s # <<>> /\ s[Len(s)] = " " THEN trimEnd(SubSeq(s, 1, Len(s) - 1)) ELSE s

normalizeEmail(email) == trimEnd(trimStart([i \in 1..Len(email) |-> lowerChar(email[i])]))

normalizeEmployeeData(row) == [row EXCEPT !.email = normalizeEmail(@)]

(***************************************************************************)
(* isValidEmail: /^[^\s@]+@[^\s@]+\.[^\s@]+$/                              *)
(***************************************************************************)
Plain(s) == \A i \in 1..Len(s) : s[i] \notin {" ", "@"}

isValidEmail(email) ==
    \E at \in 2..Len(email) :
      /\ email[at] = "@"
      /\ Plain(SubSeq(email, 1, at - 1))
      /\ Plain(SubSeq(email, at + 1, Len(email)))
      /\ \E dot \in (at + 2)..(Len(email) - 1) : email[dot] = "."

(***************************************************************************)
(* getTenantConfig: the row of tenant_main.companies, with the columns of  *)
(* the schema (max_employees); validateEmployeeData reads maxEmployees.    *)
(***************************************************************************)
getTenantConfig(tenantId) == [id |-> tenantId, max_employees |-> TenantMaxEmployees]

\* tenant.maxEmployees && validEmployees.length >= tenant.maxEmployees
ExceedsLimit(tenant, validCount) ==
    IF "maxEmployees" \in DOMAIN tenant
    THEN tenant["maxEmployees"] # 0 /\ validCount >= tenant["maxEmployees"]
    ELSE FALSE

\* checkExistingEmployee against tenant_main.employees
checkExistingEmployee(db, tenantId, email) == <<tenantId, email>> \in db

\* the reasons validateEmployeeData collects for one row
rowErrors(employee, emailSeen, exists, overLimit) ==
    (IF employee.email = noMail THEN <<"Email is required">>
     ELSE IF ~isValidEmail(employee.email) THEN <<"Invalid email format">>
     ELSE IF employee.email \in emailSeen THEN <<"Duplicate email address">>
     ELSE <<>>)
    \o (IF employee.firstName = "" THEN <<"First name is required">> ELSE <<>>)
    \o (IF employee.lastName = "" THEN <<"Last name is required">> ELSE <<>>)
    \o (IF employee.email # noMail /\ exists
        THEN <<"Employee already exists">> ELSE <<>>)
    \o (IF overLimit THEN <<"Exceeds tenant employee limit">> ELSE <<>>)

\* C16 mutant: a validator that never adds an email to emailSet
emailSetAfterForgetting(employee, emailSeen) == emailSeen

emailSetAfter(employee, emailSeen) ==
    IF /\ employee.email # noMail
       /\ isValidEmail(employee.email)
       /\ employee.email \notin emailSeen
    THEN emailSeen \cup {employee.email}
    ELSE emailSeen

\* C14 mutant: a loop that goes on to the next row as soon as it meets a row
\* without email, recording nothing for it
RECURSIVE validateFromSkipping(_, _, _, _, _, _)
validateFromSkipping(employees, index, tenantId, db, emailSeen, acc) ==
    IF index > Len(employees) THEN acc
    ELSE
      LET employee == employees[index]
          errs == rowErrors(employee, emailSeen,
                            checkExistingEmployee(db, tenantId, employee.email),
                            ExceedsLimit(getTenantConfig(tenantId),
                                         Len(acc.validEmployees)))
          next == IF employee.email = noMail THEN acc
                  ELSE IF errs = <<>>
                  THEN [acc EXCEPT !.validEmployees =
                          Append(@, [employee |-> employee, rowIndex |-> index + 1])]
                  ELSE [acc EXCEPT
                          !.invalidEmployees =
                             Append(@, [rowIndex |-> index + 1,
                                        employee |-> employee, errors |-> errs]),
                          !.errors = Append(@, index + 1)]
      IN validateFromSkipping(employees, index + 1, tenantId, db,
                              emailSetAfter(employee, emailSeen), next)

RECURSIVE validateFrom(_, _, _, _, _, _)
validateFrom(employees, index, tenantId, db, emailSeen, acc) ==
    IF index > Len(employees) THEN acc
    ELSE
      LET employee == employees[index]
          errs == rowErrors(employee, emailSeen,
                            checkExistingEmployee(db, tenantId, employee.email),
                            ExceedsLimit(getTenantConfig(tenantId),
                                         Len(acc.validEmployees)))
          checked == IF employee.email # noMail
                     THEN [acc EXCEPT !.existenceChecks = Append(@, index + 1)]
                     ELSE acc
          next == IF errs = <<>>
                  THEN [checked EXCEPT !.validEmployees =
                          Append(@, [employee |-> employee, rowIndex |-> index + 1])]
                  ELSE [checked EXCEPT
                          !.invalidEmployees =
                             Append(@, [rowIndex |-> index + 1,
                                        employee |-> employee, errors |-> errs]),
                          !.errors = Append(@, index + 1)]
      IN validateFrom(employees, index + 1, tenantId, db,
                      emailSetAfter(employee, emailSeen), next)

\* validateEmployeeData(employees, tenantId); rowIndex is index + 2 for the
\* 0-based index of the source, index + 1 for the 1-based index used here
\* existenceChecks is not part of the value returned: it lists the rows for
\* which checkExistingEmployee was awaited (lines 2032-2037)
validateEmployeeData(employees, tenantId, db) ==
    validateFrom(employees, 1, tenantId, db, {},
                 [validEmployees |-> <<>>, invalidEmployees |-> <<>>,
                  errors |-> <<>>, existenceChecks |-> <<>>])

\* C15 mutant: a loop that stops before a last batch that is not full
\* (i + batchSize <= array.length)
RECURSIVE createBatchesFullOnly(_, _)
createBatchesFullOnly(array, size) ==
    IF Len(array) < size THEN <<>>
    ELSE <<SubSeq(array, 1, size)>>
         \o createBatchesFullOnly(SubSeq(array, size + 1, Len(array)), size)

\* createBatches(array, batchSize)
RECURSIVE createBatches(_, _)
createBatches(array, size) ==
    IF array = <<>> THEN <<>>
    ELSE <<SubSeq(array, 1, Min(size, Len(array)))>>
         \o createBatches(SubSeq(array, Min(size, Len(array)) + 1, Len(array)), size)

(***************************************************************************)
(* RedisManager: get returns null and set returns false when the client is *)
(* not connected; neither throws.  A key is <<kind, onboardingId, index>>, *)
(* the stored entry carries the value and the tick at which it expires.    *)
(***************************************************************************)
SessionKey(onboardingId) == <<"onboarding", onboardingId, 0>>
BatchKey(onboardingId, batchIndex) == <<"batch", onboardingId, batchIndex>>

\* RedisManager.get: <<>> is null, <<v>> the value found
RedisGet(st, connected, key) ==
    IF connected /\ key \in DOMAIN st THEN <<st[key].val>> ELSE <<>>

\* C13 mutant: a client that applies the write although it is not connected
RedisSetexOffline(st, connected, t, key, value) ==
    [k \in DOMAIN st \cup {key} |->
        IF k = key THEN [val |-> value, expireAt |-> t + TTL] ELSE st[k]]

\* RedisManager.setex / set: the store after the call
RedisSetex(st, connected, t, key, value) ==
    IF connected
    THEN [k \in DOMAIN st \cup {key} |->
            IF k = key THEN [val |-> value, expireAt |-> t + TTL] ELSE st[k]]
    ELSE st

\* { ...session, ...updates }
Merge(session, updates) ==
    [f \in DOMAIN session \cup DOMAIN updates |->
        IF f \in DOMAIN updates THEN updates[f] ELSE session[f]]

createOnboardingSession(st, connected, t, tenantId, onboardingId, data) ==
    RedisSetex(st, connected, t, SessionKey(onboardingId),
               Merge([tenantId |-> tenantId, status |-> "started", startTime |-> t],
                     data))

\* C12 mutant: the update stored without the session it was read from
updateOnboardingSessionReplacing(st, connected, t, onboardingId, updates) ==
    LET existing == RedisGet(st, connected, SessionKey(onboardingId))
    IN IF existing # <<>>
       THEN RedisSetex(st, connected, t, SessionKey(onboardingId),
                       Merge(updates, [lastUpdate |-> t]))
       ELSE st

updateOnboardingSession(st, connected, t, onboardingId, updates) ==
    LET existing == RedisGet(st, connected, SessionKey(onboardingId))
    IN IF existing # <<>>
       THEN RedisSetex(st, connected, t, SessionKey(onboardingId),
                       Merge(Merge(existing[1], updates), [lastUpdate |-> t]))
       ELSE st

updateBatchStatus(st, connected, t, onboardingId, batchIndex, status) ==
    RedisSetex(st, connected, t, BatchKey(onboardingId, batchIndex), status)

(***************************************************************************)
(* Recommendations                                                         *)
(***************************************************************************)
validApps ==
    {"fertilitytracker", "pregnancycompanion", "postpartumsupport",
     "menowellness", "supportpartner", "myconfidant", "soberpal",
     "innerarchitect"}

Rec(app, reason, priority, spouse) ==
    [app |-> app, reason |-> reason, priority |-> priority, includeSpouse |-> spouse]

\* String.prototype.toLowerCase on the department names of the model
toLowerCase(str) ==
    CASE str = "Sales" -> "sales"
      [] str = "HR" -> "hr"
      [] OTHER -> str

\* condition.toLowerCase().includes('addiction') || ...includes('alcohol')
MentionsAddiction(condition) ==
    condition \in {"addiction", "alcohol abuse", "Alcohol"}

SelectSeq3(s) == SubSeq(s, 1, Min(3, Len(s)))

\* C21 mutant: the partner rule not guarded by includeSpouse
getFallbackRecommendationsAlwaysPartner(employee) ==
    SelectSeq3(
      (IF employee.age # 0 /\ employee.age < 35 /\ employee.maritalStatus = "married"
       THEN <<Rec("fertilitytracker", "Young married couple - fertility planning",
                  "high", TRUE)>>
       ELSE <<>>)
      \o (IF employee.age # 0 /\ employee.age > 45 /\ employee.gender = "female"
          THEN <<Rec("menowellness", "Perimenopausal/menopausal age range",
                     "high", FALSE)>>
               \o <<Rec("supportpartner",
                        "Partner support during menopause transition",
                        "medium", TRUE)>>
          ELSE <<>>)
      \o (IF employee.department # ""
             /\ toLowerCase(employee.department) \in {"sales", "executive", "finance"}
          THEN <<Rec("innerarchitect", "High-stress department - personal development",
                     "medium", FALSE)>>
          ELSE <<>>)
      \o (IF \E i \in 1..Len(employee.healthConditions) :
                 MentionsAddiction(employee.healthConditions[i])
          THEN <<Rec("soberpal", "Addiction recovery support", "high", FALSE)>>
          ELSE <<>>))

\* getFallbackRecommendations(employee)
getFallbackRecommendations(employee) ==
    SelectSeq3(
      (IF employee.age # 0 /\ employee.age < 35 /\ employee.maritalStatus = "married"
       THEN <<Rec("fertilitytracker", "Young married couple - fertility planning",
                  "high", TRUE)>>
       ELSE <<>>)
      \o (IF employee.age # 0 /\ employee.age > 45 /\ employee.gender = "female"
          THEN <<Rec("menowellness", "Perimenopausal/menopausal age range",
                     "high", FALSE)>>
               \o (IF employee.includeSpouse
                   THEN <<Rec("supportpartner",
                              "Partner support during menopause transition",
                              "medium", TRUE)>>
                   ELSE <<>>)
          ELSE <<>>)
      \o (IF employee.department # ""
             /\ toLowerCase(employee.department) \in {"sales", "executive", "finance"}
          THEN <<Rec("innerarchitect", "High-stress department - personal development",
                     "medium", FALSE)>>
          ELSE <<>>)
      \o (IF \E i \in 1..Len(employee.healthConditions) :
                 MentionsAddiction(employee.healthConditions[i])
          THEN <<Rec("soberpal", "Addiction recovery support", "high", FALSE)>>
          ELSE <<>>))

\* what claudeAIService.getAppRecommendations may deliver: it throws, it
\* resolves to a value without a recommendations array, or to a list
AIThrows == [kind |-> "throw", recommendations |-> <<>>]
AIMalformed == [kind |-> "malformed", recommendations |-> <<>>]
AIList(recs) == [kind |-> "list", recommendations |-> recs]

\* an entry of the list that is null: rec.app throws a TypeError in the filter
NullEntry == [null |-> TRUE]
IsNull(rec) == "null" \in DOMAIN rec

\* the filter of validateRecommendations runs over every entry of the list
FilterThrows(response) ==
    \E i \in 1..Len(response.recommendations) : IsNull(response.recommendations[i])

IsCatalogApp(rec) == rec.app \in validApps

\* C18 mutant: the list cut to three entries without the catalog filter
validateRecommendationsUnfiltered(response) ==
    SelectSeq3(response.recommendations)

\* validateRecommendations(recommendations), for a well-formed response
validateRecommendations(response) ==
    SelectSeq3(SelectSeq(response.recommendations, IsCatalogApp))

\* C19 mutant: a catch block that gives up with an empty list
getAppRecommendationsNoFallback(employee, response) ==
    IF response.kind = "list" /\ ~FilterThrows(response)
    THEN validateRecommendations(response)
    ELSE <<>>

\* getAppRecommendations(employee, tenantId) given the AI service's answer:
\* whatever is thrown in the try block, by the service or by
\* validateRecommendations, ends in the fallback
getAppRecommendations(employee, response) ==
    IF response.kind = "list" /\ ~FilterThrows(response)
    THEN validateRecommendations(response)
    ELSE getFallbackRecommendations(employee)

\* the AI answers of the pipeline specification
AIResponses ==
    { AIThrows,
      AIList(<<Rec("notanapp", "r", "high", FALSE),
               Rec("innerarchitect", "r", "low", TRUE)>>) }

(***************************************************************************)
(* Provisioning.  db is [employees, app_assignments, notifications]:       *)
(* employees holds <<company_id, email>> (unique_employee_per_company),    *)
(* the employee id is that pair; app_assignments holds the rows inserted;  *)
(* notifications is the bag of 'send-welcome-email' requests.              *)
(***************************************************************************)
Assignment(employeeId, rec) ==
    [employee_id |-> employeeId, app_name |-> rec.app, access_level |-> "basic",
     priority |-> rec.priority, status |-> "active", assigned_to_spouse |-> FALSE]

HasAssignment(rows, employeeId, app) ==
    \E a \in rows : a.employee_id = employeeId /\ a.app_name = app

\* createAppAssignment is a plain INSERT: it throws when the database is
\* failing and when the row would violate unique_employee_app, and then
\* leaves the table as it was
createAppAssignment(rows, employeeId, recommendation, dbFails) ==
    IF dbFails
    THEN [threw |-> "database error", rows |-> rows]
    ELSE IF HasAssignment(rows, employeeId, recommendation.app)
    THEN [threw |-> "unique_employee_app", rows |-> rows]
    ELSE [threw |-> "", rows |-> rows \cup {Assignment(employeeId, recommendation)}]

\* the TypeError of calling this.createSpouseAppAssignment, which the class
\* does not define
NotAFunction == "createSpouseAppAssignment is not a function"

\* provisionAppAccess: for every recommendation, createAppAssignment and,
\* if rec.includeSpouse && employee.spouseEmail, the call of
\* createSpouseAppAssignment; whatever throws inside the try block is
\* logged (errors) and the loop goes on.  The employee's own assignment is
\* pushed before the spouse call throws.
RECURSIVE provisionAppAccess(_, _, _, _, _)
provisionAppAccess(rows, employeeId, recommendations, employee, dbFails) ==
    IF recommendations = <<>>
    THEN [rows |-> rows, assignments |-> <<>>, errors |-> <<>>]
    ELSE
      LET rec == Head(recommendations)
          own == createAppAssignment(rows, employeeId, rec, dbFails)
          spouse == own.threw = "" /\ rec.includeSpouse /\ employee.spouseEmail # noMail
          rest == provisionAppAccess(own.rows, employeeId, Tail(recommendations),
                                     employee, dbFails)
      IN [rows |-> rest.rows,
          assignments |-> (IF own.threw = "" THEN <<Assignment(employeeId, rec)>>
                           ELSE <<>>)
                          \o rest.assignments,
          errors |-> (IF own.threw # "" THEN <<[app |-> rec.app, error |-> own.threw]>>
                      ELSE IF spouse THEN <<[app |-> rec.app, error |-> NotAFunction]>>
                      ELSE <<>>)
                     \o rest.errors]

\* what may go wrong for one employee: nothing, the INSERT of the employee
\* row, the INSERTs of the assignments, notificationQueue.add
EmployeeFaults == {"none", "create", "assign", "notify"}

\* one iteration of the loop of processEmployeeBatch (lines 2075-2120)
processEmployee(db, tenantId, onboardingId, employee, fault, response) ==
    LET employeeId == <<tenantId, employee.email>>
        created == fault # "create" /\ employeeId \notin db.employees
        prov == provisionAppAccess(db.app_assignments, employeeId,
                                   getAppRecommendations(employee, response),
                                   employee, fault = "assign")
    IN IF ~created
       THEN [db |-> db,
             result |-> [email |-> employee.email, status |-> "failed",
                         appsAssigned |-> 0]]
       ELSE IF fault = "notify"
       THEN [db |-> [db EXCEPT !.employees = @ \cup {employeeId},
                               !.app_assignments = prov.rows],
             result |-> [email |-> employee.email, status |-> "failed",
                         appsAssigned |-> 0]]
       ELSE [db |-> [employees |-> db.employees \cup {employeeId},
                     app_assignments |-> prov.rows,
                     notifications |-> db.notifications (+)
                        SetToBag({[tenantId |-> tenantId, employeeId |-> employeeId,
                                   onboardingId |-> onboardingId]})],
             result |-> [email |-> employee.email, status |-> "success",
                         appsAssigned |-> Len(prov.assignments)]]

\* C4 mutant: the loop without its inner try/catch, which ends at the first
\* employee that fails
RECURSIVE processEmployeesAborting(_, _, _, _, _, _)
processEmployeesAborting(db, tenantId, onboardingId, employees, faults, responses) ==
    IF employees = <<>> THEN [db |-> db, results |-> <<>>]
    ELSE
      LET one == processEmployee(db, tenantId, onboardingId, Head(employees).employee,
                                 Head(faults), Head(responses))
          rest == processEmployeesAborting(one.db, tenantId, onboardingId,
                                           Tail(employees), Tail(faults), Tail(responses))
      IN IF one.result.status = "failed"
         THEN [db |-> one.db, results |-> <<one.result>>]
         ELSE [db |-> rest.db, results |-> <<one.result>> \o rest.results]

RECURSIVE processEmployees(_, _, _, _, _, _)
processEmployees(db, tenantId, onboardingId, employees, faults, responses) ==
    IF employees = <<>> THEN [db |-> db, results |-> <<>>]
    ELSE
      LET one == processEmployee(db, tenantId, onboardingId, Head(employees).employee,
                                 Head(faults), Head(responses))
          rest == processEmployees(one.db, tenantId, onboardingId, Tail(employees),
                                   Tail(faults), Tail(responses))
      IN [db |-> rest.db, results |-> <<one.result>> \o rest.results]

IsSuccess(r) == r.status = "success"

\* the status processEmployeeBatch writes after its loop (lines 2122-2131)
completedStatus(results) ==
    [status |-> "completed", processedCount |-> Len(results),
     successCount |-> Len(SelectSeq(results, IsSuccess))]

\* the status its catch block writes (lines 2144-2148)
failedStatus == [status |-> "failed", error |-> "batch error"]

(***************************************************************************)
(* State                                                                   *)
(***************************************************************************)
VARIABLES
    now,            \* Date.now()
    isConnected,    \* RedisManager.isConnected
    store,          \* the keys of the Redis store
    uploads,        \* the processCSVUpload calls, in order of arrival
    employeeQueue,  \* the 'process-employee-batch' jobs of the Bull queue
    db,             \* tenant_main.employees, app_assignments, notification queue
    lastPoll,       \* the last 200 response of GET /status, <<>> before the first
    cancelled,      \* the ids DELETE /:onboardingId has answered for
    call            \* the last direct call of a method of the service, <<>> before the first

vars == <<now, isConnected, store, uploads, employeeQueue, db, lastPoll, cancelled,
          call>>

OnboardingIds == {uploads[u].onboardingId : u \in 1..Len(uploads)}

Init ==
    /\ now = 0
    /\ isConnected = TRUE
    /\ store = <<>>
    /\ uploads = <<>>
    /\ employeeQueue = <<>>
    /\ db = [employees |-> {}, app_assignments |-> {}, notifications |-> EmptyBag]
    /\ lastPoll = <<>>
    /\ cancelled = {}
    /\ call = <<>>

(***************************************************************************)
(* Environment: the clock, key expiry, the Redis connection                *)
(***************************************************************************)
\* time passes; Redis drops the keys whose TTL has run out
Tick ==
    /\ now < MaxTime
    /\ now' = now + 1
    /\ store' = [k \in {x \in DOMAIN store : store[x].expireAt > now + 1} |-> store[k]]
    /\ UNCHANGED <<isConnected, uploads, employeeQueue, db, lastPoll, cancelled, call>>

\* client.on('error') / client.on('end')
RedisError ==
    /\ isConnected
    /\ isConnected' = FALSE
    /\ UNCHANGED <<now, store, uploads, employeeQueue, db, lastPoll, cancelled, call>>

\* client.on('ready')
RedisReady ==
    /\ ~isConnected
    /\ isConnected' = TRUE
    /\ UNCHANGED <<now, store, uploads, employeeQueue, db, lastPoll, cancelled, call>>

(***************************************************************************)
(* processCSVUpload, one action per stretch between its awaits             *)
(***************************************************************************)
\* lines 1820-1837: the id is made from the tenant and the clock, the
\* session record is created.  sessionCreated is what setex returned (the
\* code drops it); validRows and invalidRows are the lengths of the lists of
\* validationResult, whether or not the upload goes on
\* C28 mutant: the id built from the tenant alone, without Date.now()
UploadBeginUpToTenantOnly(limit, tenantId, csv, options) ==
    /\ Len(uploads) < limit
    /\ LET onboardingId == <<tenantId, 0>>
       IN /\ store' = createOnboardingSession(store, isConnected, now, tenantId,
                                              onboardingId, [options |-> options])
          /\ uploads' = Append(uploads,
                [pc |-> "created", tenantId |-> tenantId,
                 onboardingId |-> onboardingId, startTime |-> now, csv |-> csv,
                 options |-> options, sessionCreated |-> isConnected,
                 validRows |-> 0, invalidRows |-> 0,
                 totalEmployees |-> 0, totalBatches |-> 0, invalidRecords |-> 0])
    /\ UNCHANGED <<now, isConnected, employeeQueue, db, lastPoll, cancelled, call>>

\* the first stretch of processCSVUpload, for at most limit uploads: the id
\* is `onboarding_${tenantId}_${Date.now()}`
UploadBeginUpTo(limit, tenantId, csv, options) ==
    /\ Len(uploads) < limit
    /\ LET onboardingId == <<tenantId, now>>
       IN /\ store' = createOnboardingSession(store, isConnected, now, tenantId,
                                              onboardingId, [options |-> options])
          /\ uploads' = Append(uploads,
                [pc |-> "created", tenantId |-> tenantId,
                 onboardingId |-> onboardingId, startTime |-> now, csv |-> csv,
                 options |-> options, sessionCreated |-> isConnected,
                 validRows |-> 0, invalidRows |-> 0,
                 totalEmployees |-> 0, totalBatches |-> 0, invalidRecords |-> 0])
    /\ UNCHANGED <<now, isConnected, employeeQueue, db, lastPoll, cancelled, call>>

UploadBegin(tenantId, csv, options) ==
    UploadBeginUpTo(MaxUploads, tenantId, csv, options)

\* one 'process-employee-batch' job as employeeQueue.add receives it
BatchJob(up, batch, index) ==
    [tenantId |-> up.tenantId, onboardingId |-> up.onboardingId,
     batchIndex |-> index, employees |-> batch, options |-> up.options,
     state |-> "waiting", attemptsMade |-> 0, returnvalue |-> <<>>]

\* C9 mutant: parseCSV resolves with the rows read so far when the stream
\* ends in 'error'
UploadValidateIgnoringParseError(u) ==
    /\ u \in 1..Len(uploads)
    /\ uploads[u].pc = "created"
    /\ LET up == uploads[u]
           validationResult == validateEmployeeData(up.csv.rows, up.tenantId, db.employees)
           batches == createBatches(validationResult.validEmployees, batchSize)
       IN IF Len(validationResult.errors) > 0
          THEN /\ uploads' = [uploads EXCEPT ![u].pc = "catch"]
               /\ UNCHANGED employeeQueue
          ELSE /\ uploads' = [uploads EXCEPT
                    ![u].pc = "queued",
                    ![u].totalEmployees = Len(validationResult.validEmployees),
                    ![u].totalBatches = Len(batches),
                    ![u].invalidRecords = Len(validationResult.invalidEmployees)]
               /\ employeeQueue' = employeeQueue \o
                    [i \in 1..Len(batches) |-> BatchJob(up, batches[i], i - 1)]
    /\ UNCHANGED <<now, isConnected, store, db, lastPoll, cancelled, call>>

\* lines 1839-1871: parse, validate, throw on any row error, else split the
\* valid employees into batches and add one queue job per batch
UploadValidate(u) ==
    /\ u \in 1..Len(uploads)
    /\ uploads[u].pc = "created"
    /\ LET up == uploads[u]
           validationResult == validateEmployeeData(up.csv.rows, up.tenantId, db.employees)
           batches == createBatches(validationResult.validEmployees, batchSize)
       IN IF ~up.csv.ok \/ Len(validationResult.errors) > 0
          THEN /\ uploads' = [uploads EXCEPT
                    ![u].pc = "catch",
                    ![u].validRows =
                        IF up.csv.ok THEN Len(validationResult.validEmployees) ELSE 0,
                    ![u].invalidRows =
                        IF up.csv.ok THEN Len(validationResult.invalidEmployees) ELSE 0]
               /\ UNCHANGED employeeQueue
          ELSE /\ uploads' = [uploads EXCEPT
                    ![u].pc = "queued",
                    ![u].validRows = Len(validationResult.validEmployees),
                    ![u].invalidRows = Len(validationResult.invalidEmployees),
                    ![u].totalEmployees = Len(validationResult.validEmployees),
                    ![u].totalBatches = Len(batches),
                    ![u].invalidRecords = Len(validationResult.invalidEmployees)]
               /\ employeeQueue' = employeeQueue \o
                    [i \in 1..Len(batches) |-> BatchJob(up, batches[i], i - 1)]
    /\ UNCHANGED <<now, isConnected, store, db, lastPoll, cancelled, call>>

\* lines 1873-1891: the session is updated to processing, the result returned
UploadUpdate(u) ==
    /\ u \in 1..Len(uploads)
    /\ uploads[u].pc = "queued"
    /\ store' = updateOnboardingSession(store, isConnected, now, uploads[u].onboardingId,
                    [status |-> "processing",
                     totalEmployees |-> uploads[u].totalEmployees,
                     totalBatches |-> uploads[u].totalBatches,
                     batchIds |-> [i \in 1..uploads[u].totalBatches |-> "null"]])
    /\ uploads' = [uploads EXCEPT ![u].pc = "returned"]
    /\ UNCHANGED <<now, isConnected, employeeQueue, db, lastPoll, cancelled, call>>

\* lines 1893-1907: the session is updated to failed, the error rethrown
UploadCatch(u) ==
    /\ u \in 1..Len(uploads)
    /\ uploads[u].pc = "catch"
    /\ store' = updateOnboardingSession(store, isConnected, now, uploads[u].onboardingId,
                    [status |-> "failed", error |-> "message"])
    /\ uploads' = [uploads EXCEPT ![u].pc = "threw"]
    /\ UNCHANGED <<now, isConnected, employeeQueue, db, lastPoll, cancelled, call>>

(***************************************************************************)
(* The batch worker: employeeQueue.process('process-employee-batch', ...)  *)
(***************************************************************************)
ActiveJobs == {i \in 1..Len(employeeQueue) : employeeQueue[i].state = "active"}

\* a worker slot takes a waiting job (at most maxConcurrentJobs at a time)
BatchStart(i) ==
    /\ i \in 1..Len(employeeQueue)
    /\ employeeQueue[i].state = "waiting"
    /\ Cardinality(ActiveJobs) < maxConcurrentJobs
    /\ employeeQueue' = [employeeQueue EXCEPT ![i].state = "active"]
    /\ UNCHANGED <<now, isConnected, store, uploads, db, lastPoll, cancelled, call>>

\* processEmployeeBatch runs its loop to the end (lines 2073-2142): every
\* employee gets an outcome, the batch status is written as completed
BatchComplete(i, faults, responses) ==
    /\ i \in 1..Len(employeeQueue)
    /\ employeeQueue[i].state = "active"
    /\ LET job == employeeQueue[i]
           run == processEmployees(db, job.tenantId, job.onboardingId, job.employees,
                                   faults, responses)
       IN /\ db' = run.db
          /\ store' = updateBatchStatus(store, isConnected, now, job.onboardingId,
                                        job.batchIndex, completedStatus(run.results))
          /\ employeeQueue' = [employeeQueue EXCEPT ![i].state = "completed",
                                                     ![i].returnvalue = run.results]
    /\ UNCHANGED <<now, isConnected, uploads, lastPoll, cancelled, call>>

\* the try block throws outside the per-employee try/catch (lines 2066-2075:
\* the payload cannot be iterated, the logger fails); the catch block writes
\* the batch status as failed and rethrows, and Bull retries the job while
\* attemptsMade < attempts
\* C24 mutant: a thrown attempt is not counted, the job is retried for ever
BatchThrowUncounted(i) ==
    /\ i \in 1..Len(employeeQueue)
    /\ employeeQueue[i].state = "active"
    /\ LET job == employeeQueue[i]
       IN /\ store' = updateBatchStatus(store, isConnected, now, job.onboardingId,
                                        job.batchIndex, failedStatus)
          /\ employeeQueue' = [employeeQueue EXCEPT ![i].state = "waiting"]
    /\ UNCHANGED <<now, isConnected, uploads, db, lastPoll, cancelled, call>>

BatchThrow(i) ==
    /\ i \in 1..Len(employeeQueue)
    /\ employeeQueue[i].state = "active"
    /\ LET job == employeeQueue[i]
       IN /\ store' = updateBatchStatus(store, isConnected, now, job.onboardingId,
                                        job.batchIndex, failedStatus)
          /\ employeeQueue' = [employeeQueue EXCEPT
                ![i].attemptsMade = @ + 1,
                ![i].state = IF job.attemptsMade + 1 < attempts
                             THEN "waiting" ELSE "failed"]
    /\ UNCHANGED <<now, isConnected, uploads, db, lastPoll, cancelled, call>>

(***************************************************************************)
(* GET /status/:onboardingId and getOnboardingStatus                       *)
(***************************************************************************)
\* the batch values read by the loop of getOnboardingStatus, missing keys
\* skipped
RECURSIVE readBatchStatuses(_, _, _, _, _)
readBatchStatuses(st, connected, onboardingId, i, totalBatches) ==
    IF i >= totalBatches THEN <<>>
    ELSE RedisGet(st, connected, BatchKey(onboardingId, i))
         \o readBatchStatuses(st, connected, onboardingId, i + 1, totalBatches)

IsCompleted(b) == b.status = "completed"

RECURSIVE SumField(_, _)
SumField(bs, f) ==
    IF bs = <<>> THEN 0
    ELSE (IF f \in DOMAIN Head(bs) THEN Head(bs)[f] ELSE 0) + SumField(Tail(bs), f)

\* getOnboardingStatus, for a session that was found
getOnboardingStatus(st, connected, onboardingId, sessionData) ==
    LET batchStatuses ==
          IF "totalBatches" \in DOMAIN sessionData
          THEN readBatchStatuses(st, connected, onboardingId, 0,
                                 sessionData["totalBatches"])
          ELSE <<>>
    IN Merge(sessionData,
             [batchStatuses |-> batchStatuses,
              completedBatches |-> Len(SelectSeq(batchStatuses, IsCompleted)),
              totalProcessed |-> SumField(batchStatuses, "processedCount"),
              totalSuccessful |-> SumField(batchStatuses, "successCount")])

\* Math.round(completed / total * 100)
Percentage(completed, total) == (200 * completed + total) \div (2 * total)

\* the JSON the route sends: fields that are undefined are left out
StatusResponse(status) ==
    LET hasTotal == "totalBatches" \in DOMAIN status
        total == IF hasTotal THEN status["totalBatches"] ELSE 0
    IN Merge([status |-> IF hasTotal /\ status.completedBatches = total /\ total > 0
                         THEN "completed" ELSE status.status,
              percentage |-> IF total > 0
                             THEN Percentage(status.completedBatches, total) ELSE 0,
              completedBatches |-> status.completedBatches,
              totalProcessed |-> status.totalProcessed,
              totalSuccessful |-> status.totalSuccessful,
              batchDetails |-> status.batchStatuses],
             IF hasTotal THEN [totalBatches |-> total] ELSE <<>>)

\* the route: 404 when the session is not found (nothing is recorded), else
\* the response is recorded with the tenant and the id of the request
GetStatus(tenantId, onboardingId) ==
    /\ onboardingId \in OnboardingIds
    /\ LET session == RedisGet(store, isConnected, SessionKey(onboardingId))
       IN /\ session # <<>>
          /\ lastPoll' = <<Merge([tenantId |-> tenantId, onboardingId |-> onboardingId],
                                   StatusResponse(getOnboardingStatus(store, isConnected,
                                                     onboardingId, session[1])))>>
    /\ UNCHANGED <<now, isConnected, store, uploads, employeeQueue, db, cancelled, call>>

(***************************************************************************)
(* DELETE /:onboardingId: logs and answers 'Onboarding process cancelled'  *)
(***************************************************************************)
Cancel(tenantId, onboardingId) ==
    /\ onboardingId \in OnboardingIds
    /\ onboardingId \notin cancelled
    /\ cancelled' = cancelled \cup {onboardingId}
    /\ UNCHANGED <<now, isConnected, store, uploads, employeeQueue, db, lastPoll, call>>

(***************************************************************************)
(* Direct calls of the methods of the service, recorded in call            *)
(***************************************************************************)
\* the rows of the rosters given to the validator
RosterRows == {empA, empAUpper, empB, empC, empNoMail, empBadMail, empNoName}

RECURSIVE SeqsUpTo(_, _)
SeqsUpTo(S, n) ==
    IF n = 0 THEN {<<>>}
    ELSE LET shorter == SeqsUpTo(S, n - 1)
         IN shorter \cup {Append(q, x) : q \in shorter, x \in S}

Rosters == SeqsUpTo(RosterRows, MaxRows)

\* the contents of tenant_main.employees the validator may meet
ExistingEmployees == { {}, {<<"tA", mailB>>} }

\* parseCSV's normalisation of the rows, then validateEmployeeData; one call
\* in a behaviour
ValidateCall(rows, tenantId, existing) ==
    /\ call = <<>>
    /\ LET employees == [i \in 1..Len(rows) |-> normalizeEmployeeData(rows[i])]
       IN call' = [fn |-> "validateEmployeeData", rows |-> rows,
                   employees |-> employees, tenantId |-> tenantId,
                   existing |-> existing,
                   result |-> validateEmployeeData(employees, tenantId, existing)]
    /\ UNCHANGED <<now, isConnected, store, uploads, employeeQueue, db, lastPoll,
                   cancelled>>

\* createBatches called with the array <<1, ..., n>>; one call in a behaviour
BatchesCall(n, size) ==
    /\ call = <<>>
    /\ LET array == [i \in 1..n |-> i]
       IN call' = [fn |-> "createBatches", array |-> array, size |-> size,
                   result |-> createBatches(array, size)]
    /\ UNCHANGED <<now, isConnected, store, uploads, employeeQueue, db, lastPoll,
                   cancelled>>

\* the employee profiles given to the recommenders
Profiles == {empA, empB, empC, empD, empE, empF, empG, empH}

\* the entries of the lists the AI service answers with
RecEntries ==
    { Rec("notanapp", "r", "high", FALSE),
      Rec("innerarchitect", "r", "low", TRUE),
      Rec("soberpal", "r", "high", FALSE),
      Rec("menowellness", "r", "medium", FALSE),
      NullEntry }

\* what the AI service may deliver to a direct call
AIAnswers ==
    {AIThrows, AIMalformed} \cup {AIList(recs) : recs \in SeqsUpTo(RecEntries, MaxRecs)}

\* getAppRecommendations(employee, tenantId): claudeAIService is awaited
\* once (line 2160) and delivers response; one call in a behaviour
RecommendCall(employee, response) ==
    /\ call = <<>>
    /\ call' = [fn |-> "getAppRecommendations", employee |-> employee,
                response |-> response, aiCalls |-> 1,
                result |-> getAppRecommendations(employee, response)]
    /\ UNCHANGED <<now, isConnected, store, uploads, employeeQueue, db, lastPoll,
                   cancelled>>

\* the fallback calls made so far
FallbackCalls == IF call = <<>> THEN 0 ELSE call.nth

\* C20 mutant: the recommendations array kept by the service between calls
FallbackCallAccumulating(employee) ==
    /\ IF call = <<>> THEN TRUE ELSE call.fn = "getFallbackRecommendations"
    /\ FallbackCalls < MaxCalls
    /\ call' = [fn |-> "getFallbackRecommendations", employee |-> employee,
                nth |-> FallbackCalls + 1, at |-> now,
                previous |-> IF call = <<>> THEN <<>>
                             ELSE <<[employee |-> call.employee,
                                     result |-> call.result, at |-> call.at]>>,
                result |-> SelectSeq3((IF call = <<>> THEN <<>> ELSE call.result)
                                      \o getFallbackRecommendations(employee))]
    /\ UNCHANGED <<now, isConnected, store, uploads, employeeQueue, db, lastPoll,
                   cancelled>>

\* getFallbackRecommendations(employee), called up to MaxCalls times; the
\* record keeps the call before it
FallbackCall(employee) ==
    /\ IF call = <<>> THEN TRUE ELSE call.fn = "getFallbackRecommendations"
    /\ FallbackCalls < MaxCalls
    /\ call' = [fn |-> "getFallbackRecommendations", employee |-> employee,
                nth |-> FallbackCalls + 1, at |-> now,
                previous |-> IF call = <<>> THEN <<>>
                             ELSE <<[employee |-> call.employee,
                                     result |-> call.result, at |-> call.at]>>,
                result |-> getFallbackRecommendations(employee)]
    /\ UNCHANGED <<now, isConnected, store, uploads, employeeQueue, db, lastPoll,
                   cancelled>>

\* the recommendation lists handed to provisionAppAccess: one app twice with
\* two configurations, and a recommendation with includeSpouse
recHigh == Rec("menowellness", "r", "high", FALSE)
recLow == Rec("menowellness", "r", "low", FALSE)
recPartner == Rec("supportpartner", "r", "medium", TRUE)
ProvisionLists ==
    { <<>>, <<recHigh>>, <<recLow>>, <<recPartner>>, <<recHigh, recLow>>,
      <<recHigh, recPartner>>, <<recPartner, recHigh>> }

ProvisionCalls == IF call = <<>> THEN 0 ELSE call.nth

\* provisionAppAccess(tenantId, employeeId, recommendations, employee), called
\* for an employee of tenant tA; dbFails: database.query rejects
ProvisionCall(employee, recommendations, dbFails) ==
    /\ IF call = <<>> THEN TRUE ELSE call.fn = "provisionAppAccess"
    /\ ProvisionCalls < MaxCalls
    /\ LET employeeId == <<"tA", employee.email>>
           prov == provisionAppAccess(db.app_assignments, employeeId,
                                      recommendations, employee, dbFails)
       IN /\ db' = [db EXCEPT !.app_assignments = prov.rows]
          /\ call' = [fn |-> "provisionAppAccess", employee |-> employee,
                      employeeId |-> employeeId,
                      recommendations |-> recommendations, dbFails |-> dbFails,
                      nth |-> ProvisionCalls + 1, before |-> db.app_assignments,
                      result |-> prov.assignments, errors |-> prov.errors]
    /\ UNCHANGED <<now, isConnected, store, uploads, employeeQueue, lastPoll,
                   cancelled>>

ProcessCalls == IF call = <<>> THEN 0 ELSE call.nth

\* one iteration of the loop of processEmployeeBatch, for an employee of a
\* batch of tenant tA
ProcessCall(employee, fault, response) ==
    /\ IF call = <<>> THEN TRUE ELSE call.fn = "processEmployee"
    /\ ProcessCalls < MaxCalls
    /\ LET one == processEmployee(db, "tA", <<"tA", 0>>, employee, fault, response)
       IN /\ db' = one.db
          /\ call' = [fn |-> "processEmployee", employee |-> employee,
                      employeeId |-> <<"tA", employee.email>>,
                      fault |-> fault, response |-> response,
                      nth |-> ProcessCalls + 1, before |-> db,
                      result |-> one.result]
    /\ UNCHANGED <<now, isConnected, store, uploads, employeeQueue, lastPoll,
                   cancelled>>

(***************************************************************************)
(* Specification                                                           *)
(***************************************************************************)
\* the clock and the connection of the Redis client
Environment ==
    \/ Tick
    \/ RedisError
    \/ RedisReady

\* processCSVUpload for uploads of the given tenants, files and options
Uploading(tenants, files, options) ==
    \/ \E tenantId \in tenants, csv \in files, opts \in options :
          UploadBegin(tenantId, csv, opts)
    \/ \E u \in 1..Len(uploads) : UploadValidate(u)
    \/ \E u \in 1..Len(uploads) : UploadUpdate(u)
    \/ \E u \in 1..Len(uploads) : UploadCatch(u)

\* processEmployeeBatch running to its end: each employee meets one of the
\* given faults, and the AI service gives the employees of one execution one
\* of the given answers
Processing(faults, responses) ==
    \/ \E i \in 1..Len(employeeQueue) : BatchStart(i)
    \/ \E i \in 1..Len(employeeQueue) :
          \E fs \in [1..Len(employeeQueue[i].employees) -> faults],
             r \in responses :
             BatchComplete(i, fs, [n \in 1..Len(employeeQueue[i].employees) |-> r])

\* the batch workers, with the attempts that throw out of the batch
Working(faults, responses) ==
    \/ Processing(faults, responses)
    \/ \E i \in 1..Len(employeeQueue) : BatchThrow(i)

\* the status queries of the given tenants
Polling(tenants) ==
    \E tenantId \in tenants, onboardingId \in OnboardingIds :
       GetStatus(tenantId, onboardingId)

\* the steps of the pipeline
Pipeline(tenants, files, options, faults, responses) ==
    \/ Uploading(tenants, files, options)
    \/ Working(faults, responses)
    \/ Polling(tenants)

\* the files of the pipeline specifications
Files ==
    { Malformed, Csv(<<>>), Csv(<<empA, empB, empC>>), Csv(<<empA, empNoMail>>) }

\* The pipeline under the clock, key expiry and store outages: uploads of
\* one tenant, workers that meet failing INSERTs and a failing AI service.
Next ==
    \/ Environment
    \/ Pipeline({"tA"}, Files, {[dryRun |-> FALSE]}, {"none", "create"}, {AIThrows})

Spec == Init /\ [][Next]_vars

\* The pipeline with every request of the routes: uploads with and without
\* dryRun, and DELETE /:onboardingId; the clock stands still.
NextRequests ==
    \/ RedisError
    \/ RedisReady
    \/ Pipeline({"tA"}, Files, Options, {"none", "create"}, {AIThrows})
    \/ \E tenantId \in {"tA"}, onboardingId \in OnboardingIds :
          Cancel(tenantId, onboardingId)

SpecRequests == Init /\ [][NextRequests]_vars

\* The batches that run to their end, under every fault of one employee and
\* every AI answer, with store outages, for uploads of a roster of three
\* valid rows or of a malformed file; the clock stands still.
NextWorker ==
    \/ RedisError
    \/ RedisReady
    \/ Uploading({"tA"}, {Malformed, Csv(<<empA, empB, empC>>)}, {[dryRun |-> FALSE]})
    \/ Processing(EmployeeFaults, AIResponses)

SpecWorker == Init /\ [][NextWorker]_vars

\* processCSVUpload alone, under the clock, key expiry and store outages.
NextUpload ==
    \/ Environment
    \/ Uploading({"tA"}, Files, {[dryRun |-> FALSE]})

SpecUpload == Init /\ [][NextUpload]_vars

\* The status route asked by every tenant, for the jobs of tenant tA whose
\* workers meet no fault; with store outages, the clock stands still.
NextTenants ==
    \/ RedisError
    \/ RedisReady
    \/ Uploading({"tA"}, {Csv(<<empA, empB, empC>>), Csv(<<empA, empNoMail>>)},
                 {[dryRun |-> FALSE]})
    \/ Processing({"none"}, {AIThrows})
    \/ Polling(Tenants)

SpecTenants == Init /\ [][NextTenants]_vars

\* The writes to the store: uploads that go through or fail, workers whose
\* attempts complete or throw; with store outages, the clock stands still.
NextStore ==
    \/ RedisError
    \/ RedisReady
    \/ Uploading({"tA"}, {Malformed, Csv(<<empA, empB, empC>>)}, {[dryRun |-> FALSE]})
    \/ Working({"none"}, {AIThrows})

SpecStore == Init /\ [][NextStore]_vars

\* validateEmployeeData called with every roster of at most MaxRows rows.
NextValidator ==
    /\ call = <<>>
    /\ \E rows \in Rosters, existing \in ExistingEmployees :
          ValidateCall(rows, "tA", existing)

SpecValidator == Init /\ [][NextValidator]_vars

\* createBatches, called directly and by uploads of rosters of 0 to 3 rows.
NextBatches ==
    \/ \E n \in 0..MaxItems, size \in 1..MaxBatchSize : BatchesCall(n, size)
    \/ Uploading({"tA"},
                 {Csv(<<>>), Csv(<<empA>>), Csv(<<empA, empB>>),
                  Csv(<<empA, empB, empC>>), Csv(<<empA, empNoMail>>)},
                 {[dryRun |-> FALSE]})

SpecBatches == Init /\ [][NextBatches]_vars

\* The recommenders called directly, with every answer of the AI service,
\* while the clock and the store connection change.
NextRecommend ==
    \/ Environment
    \/ /\ call = <<>>
       /\ \E employee \in Profiles, response \in AIAnswers :
             RecommendCall(employee, response)
    \/ \E employee \in Profiles : FallbackCall(employee)

SpecRecommend == Init /\ [][NextRecommend]_vars

\* the worker takes a waiting job when a concurrency slot is free
WorkerTakesJob == \E i \in 1..Len(employeeQueue) : BatchStart(i)

\* the handler of an active job settles: processEmployeeBatch returns or
\* throws; every call of the AI service throws
WorkerSettlesJob ==
    \/ \E i \in 1..Len(employeeQueue) : BatchThrow(i)
    \/ \E i \in 1..Len(employeeQueue) :
          \E fs \in [1..Len(employeeQueue[i].employees) -> {"none", "create"}] :
             BatchComplete(i, fs, [n \in 1..Len(employeeQueue[i].employees) |-> AIThrows])

\* the pipeline with the AI service down and the store up.  Bull runs a
\* waiting job as soon as one of the maxConcurrentJobs slots is free, and the
\* promise of a handler settles: both are weakly fair.  Uploads are not.
NextFair ==
    \/ Uploading({"tA"}, {Malformed, Csv(<<empA, empB, empC>>)}, {[dryRun |-> FALSE]})
    \/ WorkerTakesJob
    \/ WorkerSettlesJob

SpecFair ==
    Init /\ [][NextFair]_vars /\ WF_vars(WorkerTakesJob) /\ WF_vars(WorkerSettlesJob)

\* one upload more than in the other specifications, of either tenant, at
\* any value of the clock
NextIds ==
    \/ Tick
    \/ \E tenantId \in Tenants, csv \in {Malformed, Csv(<<empA, empB, empC>>)} :
          UploadBeginUpTo(MaxUploads + 1, tenantId, csv, [dryRun |-> FALSE])
    \/ \E u \in 1..Len(uploads) : UploadValidate(u)
    \/ \E u \in 1..Len(uploads) : UploadUpdate(u)
    \/ \E u \in 1..Len(uploads) : UploadCatch(u)

SpecIds == Init /\ [][NextIds]_vars

\* provisionAppAccess alone, called up to MaxCalls times on one table
NextProvision ==
    \E employee \in {empA, empB}, recommendations \in ProvisionLists,
       dbFails \in BOOLEAN :
          ProvisionCall(employee, recommendations, dbFails)

SpecProvision == Init /\ [][NextProvision]_vars

\* the processing of one employee, up to MaxCalls times on one database
NextEmployee ==
    \E employee \in {empA, empB}, fault \in EmployeeFaults, response \in AIResponses :
       ProcessCall(employee, fault, response)

SpecEmployee == Init /\ [][NextEmployee]_vars

(***************************************************************************)
(* Properties                                                              *)
(***************************************************************************)
QueueIndexes == 1..Len(employeeQueue)

JobsOfId(onboardingId) ==
    {i \in QueueIndexes : employeeQueue[i].onboardingId = onboardingId}

BatchKeysOfId(onboardingId) ==
    {k \in DOMAIN store : k[1] = "batch" /\ k[2] = onboardingId}

Failures(results) == Cardinality({n \in 1..Len(results) : results[n].status = "failed"})

\* C1: after an upload with options.dryRun = TRUE no session record, no
\* batch status record, no queued batch job, no employee row and no app
\* assignment exists for that upload's id and tenant.
C1_DryRunHasNoSideEffects ==
    \A u \in 1..Len(uploads) :
       uploads[u].options.dryRun =>
          /\ SessionKey(uploads[u].onboardingId) \notin DOMAIN store
          /\ BatchKeysOfId(uploads[u].onboardingId) = {}
          /\ JobsOfId(uploads[u].onboardingId) = {}
          /\ \A e \in db.employees : e[1] # uploads[u].tenantId
          /\ \A a \in db.app_assignments : a.employee_id[1] # uploads[u].tenantId

\* C2: from one status response for a job to the next one for the same job
\* completedBatches never decreases, and completedBatches <= totalBatches in
\* every response.
C2_ProgressMonotone ==
    [][lastPoll' # <<>> =>
         /\ "totalBatches" \in DOMAIN lastPoll'[1] =>
               lastPoll'[1].completedBatches <= lastPoll'[1].totalBatches
         /\ (lastPoll # <<>> /\ lastPoll[1].onboardingId = lastPoll'[1].onboardingId) =>
               lastPoll'[1].completedBatches >= lastPoll[1].completedBatches]_vars

\* every batch of the job has run to its end in the queue and has a
\* terminal status stored
AllBatchesTerminal(onboardingId) ==
    /\ SessionKey(onboardingId) \in DOMAIN store
    /\ "totalBatches" \in DOMAIN store[SessionKey(onboardingId)].val
    /\ store[SessionKey(onboardingId)].val.totalBatches > 0
    /\ JobsOfId(onboardingId) # {}
    /\ \A i \in JobsOfId(onboardingId) :
          /\ employeeQueue[i].state \in {"completed", "failed"}
          /\ BatchKey(onboardingId, employeeQueue[i].batchIndex) \in DOMAIN store
          /\ store[BatchKey(onboardingId, employeeQueue[i].batchIndex)].val.status
                \in {"completed", "failed"}

\* C3: a status query answered when all batches of the job are terminal
\* (completed or failed) reports the job as completed.
C3_CompletedOnceAllBatchesTerminal ==
    [][(lastPoll' # lastPoll /\ AllBatchesTerminal(lastPoll'[1].onboardingId)) =>
          lastPoll'[1].status = "completed"]_vars

\* C4: a run of processEmployeeBatch that meets failing employees still gives
\* every employee of the batch an outcome, in order, and writes the batch as
\* completed with processedCount = number of employees of the batch and
\* successCount = processedCount - number of failed outcomes, so that
\* successCount <= processedCount <= batchEmployeeCount.
C4_EmployeeFailureDoesNotAbortBatch ==
    [][\A i \in QueueIndexes :
         (employeeQueue[i].state = "active" /\ employeeQueue'[i].state = "completed") =>
            LET job == employeeQueue[i]
                results == employeeQueue'[i].returnvalue
                key == BatchKey(job.onboardingId, job.batchIndex)
            IN /\ Len(results) = Len(job.employees)
               /\ \A n \in 1..Len(results) :
                     /\ results[n].email = job.employees[n].employee.email
                     /\ results[n].status \in {"success", "failed"}
                     /\ results[n].status = "success" =>
                           <<job.tenantId, results[n].email>> \in db'.employees
               /\ isConnected =>
                     /\ key \in DOMAIN store'
                     /\ store'[key].val.status = "completed"
                     /\ store'[key].val.processedCount = Len(job.employees)
                     /\ store'[key].val.successCount =
                           store'[key].val.processedCount - Failures(results)
                     /\ store'[key].val.successCount <= store'[key].val.processedCount]_vars

\* C4 witness: a batch whose first employee failed and whose second one
\* succeeded is stored as completed with successCount < processedCount.
C4_Witness ==
    \E i \in QueueIndexes :
       /\ employeeQueue[i].state = "completed"
       /\ Len(employeeQueue[i].returnvalue) = 2
       /\ employeeQueue[i].returnvalue[1].status = "failed"
       /\ employeeQueue[i].returnvalue[2].status = "success"
       /\ BatchKey(employeeQueue[i].onboardingId, employeeQueue[i].batchIndex)
             \in DOMAIN store
       /\ LET b == store[BatchKey(employeeQueue[i].onboardingId,
                                  employeeQueue[i].batchIndex)].val
          IN b.status = "completed" /\ b.processedCount = 2 /\ b.successCount = 1

\* C5: the stored status of a batch becomes failed only in a step that
\* exhausts the attempts of its queue job, and a stored status (completed or
\* failed) never changes to another status.
C5_BatchStatusStateMachine ==
    [][\A i \in QueueIndexes :
         LET key == BatchKey(employeeQueue[i].onboardingId, employeeQueue[i].batchIndex)
         IN /\ (/\ key \in DOMAIN store'
                /\ store'[key].val.status = "failed"
                /\ ~(key \in DOMAIN store /\ store[key].val.status = "failed"))
               => employeeQueue'[i].state = "failed"
            /\ (key \in DOMAIN store /\ key \in DOMAIN store')
               => store'[key].val.status = store[key].val.status]_vars

\* C6: an upload whose roster has at least one valid and at least one invalid
\* row is accepted: it returns with invalidRecords > 0 and totalEmployees =
\* number of valid rows, and its valid rows are queued.
C6_InvalidRowsDoNotAbortUpload ==
    \A u \in 1..Len(uploads) :
       (/\ uploads[u].pc \in {"returned", "threw"}
        /\ uploads[u].csv.ok
        /\ uploads[u].validRows > 0
        /\ uploads[u].invalidRows > 0)
       => /\ uploads[u].pc = "returned"
          /\ uploads[u].invalidRecords > 0
          /\ uploads[u].totalEmployees = uploads[u].validRows
          /\ JobsOfId(uploads[u].onboardingId) # {}

\* C7: once DELETE /:onboardingId has answered for a job, no batch of that
\* job that is still waiting in the queue begins processing.
C7_CancelStopsQueuedBatches ==
    [][\A i \in QueueIndexes :
         (employeeQueue[i].onboardingId \in cancelled /\ employeeQueue[i].state = "waiting")
         => employeeQueue'[i].state = "waiting"]_vars

\* C8: an upload whose session record could not be written because the store
\* was unavailable fails: it never returns a result, no batch of it is
\* queued and no employee of it is provisioned.
C8_StoreOutageFailsUpload ==
    \A u \in 1..Len(uploads) :
       ~uploads[u].sessionCreated =>
          /\ uploads[u].pc \notin {"queued", "returned"}
          /\ JobsOfId(uploads[u].onboardingId) = {}

\* C9 (as claimed): after processCSVUpload failed in parseCSV no session
\* record exists for the upload's id and no batch is queued.
C9_NoSessionAfterParseFailure ==
    \A u \in 1..Len(uploads) :
       (uploads[u].pc = "threw" /\ ~uploads[u].csv.ok) =>
          /\ SessionKey(uploads[u].onboardingId) \notin DOMAIN store
          /\ JobsOfId(uploads[u].onboardingId) = {}

\* C9 (amended): an upload whose parseCSV fails goes to its catch block
\* without queueing a batch or touching the database, and its catch block
\* queues nothing and marks the stored session record failed whenever the
\* store is connected and holds the record.
C9_ParseFailureQueuesNothing ==
    [][\A u \in 1..Len(uploads) :
         ~uploads[u].csv.ok =>
            /\ (uploads[u].pc = "created" /\ uploads'[u].pc # "created") =>
                  /\ uploads'[u].pc = "catch"
                  /\ employeeQueue' = employeeQueue
                  /\ db' = db
                  /\ store' = store
            /\ (uploads[u].pc = "catch" /\ uploads'[u].pc # "catch") =>
                  /\ uploads'[u].pc = "threw"
                  /\ employeeQueue' = employeeQueue
                  /\ db' = db
                  /\ (isConnected /\ SessionKey(uploads[u].onboardingId) \in DOMAIN store)
                     => /\ SessionKey(uploads[u].onboardingId) \in DOMAIN store'
                        /\ store'[SessionKey(uploads[u].onboardingId)].val.status
                              = "failed"]_vars

\* C9 witness: an upload that failed in parseCSV has thrown, no batch is
\* queued, and its session record is stored with status failed.
C9_Witness ==
    \E u \in 1..Len(uploads) :
       /\ uploads[u].pc = "threw"
       /\ ~uploads[u].csv.ok
       /\ JobsOfId(uploads[u].onboardingId) = {}
       /\ SessionKey(uploads[u].onboardingId) \in DOMAIN store
       /\ store[SessionKey(uploads[u].onboardingId)].val.status = "failed"

\* C10: the stored status of a job is one of started, processing, completed,
\* failed, cancelled; it is started until the upload has queued its batches,
\* processing once the upload has returned, and whenever it is failed no
\* batch of the job has been enqueued.
C10_JobStatusLifecycle ==
    \A u \in 1..Len(uploads) :
       SessionKey(uploads[u].onboardingId) \in DOMAIN store =>
          LET status == store[SessionKey(uploads[u].onboardingId)].val.status
          IN /\ status \in {"started", "processing", "completed", "failed", "cancelled"}
             /\ uploads[u].pc = "created" => status = "started"
             /\ uploads[u].pc = "returned" => status = "processing"
             /\ status = "failed" => JobsOfId(uploads[u].onboardingId) = {}

\* C11: a status response is only ever given to the tenant that created the
\* job: the tenant of a request that was answered with job data is the
\* tenant of the upload that made the job identifier.
C11_StatusIsTenantScoped ==
    lastPoll # <<>> =>
       \A u \in 1..Len(uploads) :
          uploads[u].onboardingId = lastPoll[1].onboardingId =>
             uploads[u].tenantId = lastPoll[1].tenantId

NamedFields(pc) ==
    IF pc = "queued"
    THEN {"status", "totalEmployees", "totalBatches", "batchIds", "lastUpdate"}
    ELSE {"status", "error", "lastUpdate"}

RowIndexes(records) == {records[n].rowIndex : n \in 1..Len(records)}

\* C14: validateEmployeeData puts every input row in exactly one of
\* validEmployees and invalidEmployees (the two lengths add up to the number
\* of rows, no row number is reported twice), validEmployees is in CSV
\* order, and every rejected record carries at least one reason.
C14_ValidationPartitionsRows ==
    (call # <<>> /\ call.fn = "validateEmployeeData") =>
       LET valid == call.result.validEmployees
           invalid == call.result.invalidEmployees
           n == Len(call.employees)
       IN /\ Len(valid) + Len(invalid) = n
          /\ RowIndexes(valid) \cup RowIndexes(invalid) = 2..(n + 1)
          /\ RowIndexes(valid) \cap RowIndexes(invalid) = {}
          /\ Cardinality(RowIndexes(valid)) = Len(valid)
          /\ Cardinality(RowIndexes(invalid)) = Len(invalid)
          /\ \A k \in 1..Len(valid) :
                /\ valid[k].employee = call.employees[valid[k].rowIndex - 1]
                /\ k > 1 => valid[k - 1].rowIndex < valid[k].rowIndex
          /\ \A k \in 1..Len(invalid) :
                /\ invalid[k].employee = call.employees[invalid[k].rowIndex - 1]
                /\ Len(invalid[k].errors) >= 1

\* C14 witness: a roster of three rows was split into two valid rows around
\* one rejected row that carries two reasons.
C14_Witness ==
    /\ call # <<>>
    /\ call.fn = "validateEmployeeData"
    /\ Len(call.employees) = 3
    /\ RowIndexes(call.result.validEmployees) = {2, 4}
    /\ Len(call.result.invalidEmployees) = 1
    /\ Len(call.result.invalidEmployees[1].errors) = 2

RECURSIVE Flatten(_)
Flatten(batches) ==
    IF batches = <<>> THEN <<>> ELSE Head(batches) \o Flatten(Tail(batches))

\* ceil(n / size)
CeilDiv(n, size) == (n + size - 1) \div size

\* batches is an order-preserving split of array into CeilDiv(|array|, size)
\* non-empty slices of at most size items
IsPartition(batches, array, size) ==
    /\ Len(batches) = CeilDiv(Len(array), size)
    /\ \A b \in 1..Len(batches) : Len(batches[b]) \in 1..size
    /\ Flatten(batches) = array

\* C15: createBatches splits its array into ceil(|array| / batchSize)
\* non-empty slices of at most batchSize items whose concatenation is the
\* array; an upload that is accepted queues one job per batch of its
\* validEmployees, with batchIndex 0, 1, ... in that order, and reports
\* totalBatches = ceil(|validEmployees| / batchSize).
C15_BatchesPartitionValidEmployees ==
    [][/\ (call' # call) =>
             (call'.fn = "createBatches" =>
                 IsPartition(call'.result, call'.array, call'.size))
       /\ \A u \in 1..Len(uploads) :
             (uploads[u].pc = "created" /\ uploads'[u].pc = "queued") =>
                LET valid == validateEmployeeData(uploads[u].csv.rows,
                                 uploads[u].tenantId, db.employees).validEmployees
                    added == SubSeq(employeeQueue', Len(employeeQueue) + 1,
                                    Len(employeeQueue'))
                IN /\ uploads'[u].totalBatches = CeilDiv(Len(valid), batchSize)
                   /\ Len(added) = uploads'[u].totalBatches
                   /\ \A b \in 1..Len(added) :
                         /\ added[b].batchIndex = b - 1
                         /\ added[b].onboardingId = uploads[u].onboardingId
                   /\ IsPartition([b \in 1..Len(added) |-> added[b].employees],
                                  valid, batchSize)]_vars

\* C15 witness: an upload of three valid rows has queued a full batch and a
\* batch of the one row left, and a direct call has split five items into
\* batches of two, two and one.
C15_Witness ==
    /\ \E u \in 1..Len(uploads) :
          /\ uploads[u].pc = "queued"
          /\ uploads[u].totalEmployees = 3
          /\ uploads[u].totalBatches = Len(employeeQueue)
          /\ Len(employeeQueue) = 2
          /\ Len(employeeQueue[1].employees) = batchSize
          /\ Len(employeeQueue[2].employees) = 1
    /\ call # <<>>
    /\ call.fn = "createBatches"
    /\ call.result = << <<1, 2>>, <<3, 4>>, <<5>> >>

\* the positions before p of the rows with the email of row p
EarlierWithEmail(employees, p) ==
    {q \in 1..(p - 1) : employees[q].email = employees[p].email}

\* the reasons reported under a row number, <<>> when none is
ErrorsOfRow(result, rowIndex) ==
    LET hits == {k \in 1..Len(result.invalidEmployees) :
                    result.invalidEmployees[k].rowIndex = rowIndex}
    IN IF hits = {} THEN <<>>
       ELSE result.invalidEmployees[CHOOSE k \in hits : TRUE].errors

HasReason(errors, reason) == \E e \in 1..Len(errors) : errors[e] = reason

NoSharedValidEmail(result) ==
    \A j \in 1..Len(result.validEmployees), k \in 1..Len(result.validEmployees) :
       j # k => result.validEmployees[j].employee.email
                   # result.validEmployees[k].employee.email

\* C16 (as stated): every row whose normalised email is that of an earlier
\* row is rejected with "Duplicate email address" under its position among
\* the rows (1 for the first row), the first row with that email is not, and
\* no two valid records share an email.
C16_DuplicateRowsRejected ==
    (call # <<>> /\ call.fn = "validateEmployeeData") =>
       /\ \A p \in 1..Len(call.employees) :
             IF EarlierWithEmail(call.employees, p) # {}
             THEN HasReason(ErrorsOfRow(call.result, p), "Duplicate email address")
             ELSE ~HasReason(ErrorsOfRow(call.result, p), "Duplicate email address")
       /\ NoSharedValidEmail(call.result)

\* C16 (amended): every row whose normalised email is well-formed and is
\* that of an earlier row is rejected with "Duplicate email address" under
\* rowIndex = its position among the rows + 1 (its line in the file, the
\* header being line 1); no other row is given that reason; no two valid
\* records share an email.
C16_WellFormedDuplicatesRejected ==
    (call # <<>> /\ call.fn = "validateEmployeeData") =>
       /\ \A p \in 1..Len(call.employees) :
             IF /\ EarlierWithEmail(call.employees, p) # {}
                /\ call.employees[p].email # noMail
                /\ isValidEmail(call.employees[p].email)
             THEN HasReason(ErrorsOfRow(call.result, p + 1), "Duplicate email address")
             ELSE ~HasReason(ErrorsOfRow(call.result, p + 1), "Duplicate email address")
       /\ NoSharedValidEmail(call.result)

\* C16 witness: of three rows, the third has the email of the second typed
\* in capitals; the first two are valid and the third is rejected under
\* rowIndex 4 as a duplicate only.
C16_Witness ==
    /\ call # <<>>
    /\ call.fn = "validateEmployeeData"
    /\ Len(call.rows) = 3
    /\ call.rows[3].email # call.rows[2].email
    /\ call.employees[3].email = call.employees[2].email
    /\ RowIndexes(call.result.validEmployees) = {2, 3}
    /\ Len(call.result.invalidEmployees) = 1
    /\ call.result.invalidEmployees[1].rowIndex = 4
    /\ call.result.invalidEmployees[1].errors = <<"Duplicate email address">>

\* the employees a tenant has in tenant_main.employees
EmployeeCount(existing, tenantId) == Cardinality({e \in existing : e[1] = tenantId})

\* C17: the employees the tenant has plus the rows the validator accepts
\* never exceed companies.max_employees, and a row reached when the tenant
\* is at capacity is rejected with "Exceeds tenant employee limit".
C17_CapacityEnforced ==
    (call # <<>> /\ call.fn = "validateEmployeeData") =>
       LET capacity == getTenantConfig(call.tenantId).max_employees
           current == EmployeeCount(call.existing, call.tenantId)
           valid == call.result.validEmployees
       IN /\ current + Len(valid) <= capacity
          /\ \A p \in 1..Len(call.employees) :
                (current + Cardinality({k \in 1..Len(valid) : valid[k].rowIndex < p + 1})
                    >= capacity)
                   => HasReason(ErrorsOfRow(call.result, p + 1),
                                "Exceeds tenant employee limit")

IsRecommendCall == call # <<>> /\ call.fn = "getAppRecommendations"

IsFallbackCall == call # <<>> /\ call.fn = "getFallbackRecommendations"

\* C18: the list returned by getAppRecommendations, and the list returned
\* by getFallbackRecommendations, has at most three entries and names only
\* apps of the catalog, whatever the AI service answered.
C18_OnlyCatalogApps ==
    (IsRecommendCall \/ IsFallbackCall) =>
       /\ Len(call.result) \in 0..3
       /\ \A n \in 1..Len(call.result) : call.result[n].app \in validApps

\* C18 witness: the AI service answered with four entries, one of them
\* outside the catalog and two of them the same app, and three were returned.
C18_Witness ==
    /\ IsRecommendCall
    /\ call.response.kind = "list"
    /\ Len(call.response.recommendations) = 4
    /\ ~FilterThrows(call.response)
    /\ call.response.recommendations[1].app = "notanapp"
    /\ call.response.recommendations[2] = call.response.recommendations[3]
    /\ Len(call.result) = 3

\* the response names an app that is not in the catalog
ViolatesCatalog(response) ==
    /\ response.kind = "list"
    /\ \E i \in 1..Len(response.recommendations) :
          /\ ~IsNull(response.recommendations[i])
          /\ response.recommendations[i].app \notin validApps

\* the AI service threw, or its response has no recommendations array or
\* holds a null entry
ThrowsOrMalformed(response) == response.kind # "list" \/ FilterThrows(response)

\* C19 (as stated): when the AI service throws, or its response is malformed
\* or names an app outside the catalog, getAppRecommendations returns the
\* fallback recommendations of the employee, after one call of the service.
C19_AnyFailureFallsBack ==
    IsRecommendCall =>
       /\ call.aiCalls = 1
       /\ (ThrowsOrMalformed(call.response) \/ ViolatesCatalog(call.response)) =>
             call.result = getFallbackRecommendations(call.employee)

\* C19 (amended): when the AI service throws or its response is malformed,
\* getAppRecommendations returns the fallback recommendations of the
\* employee, after one call of the service; otherwise it returns the first
\* three catalog entries of the response in their order, the entries
\* outside the catalog dropped and the fallback not consulted.
C19_ThrowOrMalformedFallsBack ==
    IsRecommendCall =>
       /\ call.aiCalls = 1
       /\ IF ThrowsOrMalformed(call.response)
          THEN call.result = getFallbackRecommendations(call.employee)
          ELSE call.result =
                  SelectSeq3(SelectSeq(call.response.recommendations, IsCatalogApp))

\* C19 witness: the response had no recommendations array and the employee
\* was given the first three of the four apps her profile matches in the
\* rule table.
C19_Witness ==
    /\ IsRecommendCall
    /\ call.response = AIMalformed
    /\ call.employee = empD
    /\ Len(call.result) = 3
    /\ call.result[1].app = "menowellness"
    /\ call.result[2].app = "supportpartner"
    /\ call.result[3].app = "innerarchitect"

\* the fields of an employee that getFallbackRecommendations reads
ProfileOf(employee) ==
    [age |-> employee.age, gender |-> employee.gender,
     maritalStatus |-> employee.maritalStatus, department |-> employee.department,
     includeSpouse |-> employee.includeSpouse,
     healthConditions |-> employee.healthConditions]

C21_MenopauseRule ==
    (IsRecommendCall /\ call.response = AIThrows /\ call.employee.gender = "female") =>
       IF call.employee.age > 45
       THEN /\ Len(call.result) >= 1
            /\ call.result[1].app = "menowellness"
            /\ call.result[1].priority = "high"
            /\ IF call.employee.includeSpouse
               THEN /\ Len(call.result) >= 2
                    /\ call.result[2].app = "supportpartner"
                    /\ call.result[2].priority = "medium"
                    /\ call.result[2].includeSpouse
               ELSE \A n \in 1..Len(call.result) :
                       call.result[n].app # "supportpartner"
       ELSE \A n \in 1..Len(call.result) :
               call.result[n].app \notin {"menowellness", "supportpartner"}

\* C21 witness: the AI service threw for a married woman of 50 with spouse
\* access, who was recommended menowellness and supportpartner.
C21_Witness ==
    /\ IsRecommendCall
    /\ call.response = AIThrows
    /\ call.employee.age = 50
    /\ call.employee.gender = "female"
    /\ call.employee.includeSpouse
    /\ call.employee.spouseEmail # noMail
    /\ Len(call.result) = 2
    /\ call.result[1].app = "menowellness"
    /\ call.result[2].app = "supportpartner"

IsProvisionCall == call # <<>> /\ call.fn = "provisionAppAccess"

\* the rows of the table for one employee and one app
RowsOf(rows, employeeId, app) ==
    { a \in rows : a.employee_id = employeeId /\ a.app_name = app }

\* the positions of a list that recommend the app
PositionsOf(recommendations, app) ==
    { n \in 1..Len(recommendations) : recommendations[n].app = app }

\* the recommendation of position n repeats a pair: the table held the pair
\* before the call, or an earlier position of the list recommends the app
IsRepeat(n) ==
    \/ HasAssignment(call.before, call.employeeId, call.recommendations[n].app)
    \/ \E m \in 1..(n - 1) : call.recommendations[m].app = call.recommendations[n].app

\* C22: provisioning a pair (employeeId, appName) a second time, in one list
\* or in a second execution, leaves exactly one active assignment for the
\* pair, carrying the configuration of the last recommendation, and raises
\* no error.
C22_AssignmentIdempotent ==
    (IsProvisionCall /\ ~call.dbFails) =>
       \A n \in 1..Len(call.recommendations) :
          IsRepeat(n) =>
             LET rec == call.recommendations[n]
                 rows == RowsOf(db.app_assignments, call.employeeId, rec.app)
                 last == call.recommendations[
                            CHOOSE m \in PositionsOf(call.recommendations, rec.app) :
                               \A k \in PositionsOf(call.recommendations, rec.app) :
                                  k <= m]
             IN /\ Cardinality(rows) = 1
                /\ \A a \in rows : a.status = "active" /\ a.priority = last.priority
                /\ \A e \in 1..Len(call.errors) : call.errors[e].app # rec.app

\* C23: for a recommendation with includeSpouse and an employee with a
\* spouse email, provisioning creates the employee's assignment and a
\* spouse-flagged assignment for the same app; without a spouse email the
\* spouse provisioning is skipped without error and the employee's own
\* assignment is created.
C23_SpouseAssignmentMirrored ==
    (IsProvisionCall /\ ~call.dbFails) =>
       \A n \in 1..Len(call.recommendations) :
          LET rec == call.recommendations[n]
              rows == RowsOf(db.app_assignments, call.employeeId, rec.app)
          IN (rec.includeSpouse /\ ~IsRepeat(n)) =>
                /\ \E a \in rows : ~a.assigned_to_spouse
                /\ IF call.employee.spouseEmail # noMail
                   THEN \E a \in rows : a.assigned_to_spouse
                   ELSE \A e \in 1..Len(call.errors) : call.errors[e].app # rec.app

\* the job of position i waits for a worker or is being processed
Pending(i) ==
    i \in QueueIndexes /\ employeeQueue[i].state \in {"waiting", "active"}

\* the job of position i is terminal in the queue and its batch entry of the
\* store carries a terminal status
Settled(i) ==
    /\ i \in QueueIndexes
    /\ employeeQueue[i].state \in {"completed", "failed"}
    /\ BatchKey(employeeQueue[i].onboardingId, employeeQueue[i].batchIndex)
          \in DOMAIN store
    /\ store[BatchKey(employeeQueue[i].onboardingId,
                      employeeQueue[i].batchIndex)].val.status
          \in {"completed", "failed"}

IsProcessCall == call # <<>> /\ call.fn = "processEmployee"

\* the recommendations the processing of the call obtained
RecommendedOfCall == getAppRecommendations(call.employee, call.response)

\* a storage write of the call failed: the INSERT of the employee row, or
\* the INSERT of an app assignment (which is reached only after the employee
\* row was written, and has something to write)
StorageWriteFailed ==
    \/ call.fault = "create"
    \/ call.employeeId \in call.before.employees
    \/ /\ call.fault = "assign"
       /\ RecommendedOfCall # <<>>

\* C25: a storage write failure for an employee, on the employee row or on
\* an app assignment, gives that employee the outcome failed.
C25_WriteFailureIsRecorded ==
    (IsProcessCall /\ StorageWriteFailed) => call.result.status = "failed"

\* the welcome-email requests of the queue for one employee
WelcomeEmails(notifications, employeeId) ==
    LET requests == { r \in BagToSet(notifications) : r.employeeId = employeeId }
    IN IF requests = {} THEN 0
       ELSE BagCardinality([r \in requests |-> notifications[r]])

\* C30: when the outcome of an employee is failed, the processing left no
\* employee row and no app assignment behind; when it is success, the
\* employee row exists and the processing queued exactly one welcome email
\* for the employee.
C30_EmployeeAllOrNothing ==
    IsProcessCall =>
       IF call.result.status = "failed"
       THEN /\ db.employees = call.before.employees
            /\ db.app_assignments = call.before.app_assignments
       ELSE /\ call.employeeId \in db.employees
            /\ WelcomeEmails(db.notifications, call.employeeId)
                  = WelcomeEmails(call.before.notifications, call.employeeId) + 1

\* the entry of a per-batch detail list for batch index i: the stored status
\* of the batch, or queued with zero progress when nothing is stored
DescribesBatch(entry, onboardingId, i) ==
    IF BatchKey(onboardingId, i) \in DOMAIN store
    THEN entry = store[BatchKey(onboardingId, i)].val
    ELSE /\ entry.status = "queued"
         /\ "processedCount" \in DOMAIN entry => entry.processedCount = 0

\* C26: a status query of a job with totalBatches = n answers with a
\* per-batch detail list of n entries, of which entry i describes batch i;
\* a batch that has not reported appears as queued with zero progress.
C26_OneDetailPerBatch ==
    [][(lastPoll' # lastPoll /\ "totalBatches" \in DOMAIN lastPoll'[1]) =>
          LET r == lastPoll'[1]
          IN /\ Len(r.batchDetails) = r.totalBatches
             /\ \A i \in 1..Len(r.batchDetails) :
                   DescribesBatch(r.batchDetails[i], r.onboardingId, i - 1)]_vars

\* the capacity of the tenant is used up before the row of position p: the
\* tenant's employees and the rows accepted before it reach max_employees
CapacityExceededAt(p) ==
    EmployeeCount(call.existing, call.tenantId)
      + Cardinality({k \in 1..Len(call.result.validEmployees) :
                        call.result.validEmployees[k].rowIndex < p + 1})
      >= getTenantConfig(call.tenantId).max_employees

\* C27: once the capacity is exceeded at some row, every later row is
\* rejected with the capacity reason and checkExistingEmployee is not called
\* for it.
C27_NoExistenceCheckOverCapacity ==
    (call # <<>> /\ call.fn = "validateEmployeeData") =>
       \A p \in 1..Len(call.employees) :
          CapacityExceededAt(p) =>
             \A q \in (p + 1)..Len(call.employees) :
                /\ HasReason(ErrorsOfRow(call.result, q + 1),
                             "Exceeds tenant employee limit")
                /\ \A c \in 1..Len(call.result.existenceChecks) :
                      call.result.existenceChecks[c] # q + 1

EveryBatchReportedCompleted(onboardingId) ==
    /\ SessionKey(onboardingId) \in DOMAIN store
    /\ "totalBatches" \in DOMAIN store[SessionKey(onboardingId)].val
    /\ \A i \in 0..(store[SessionKey(onboardingId)].val.totalBatches - 1) :
          /\ BatchKey(onboardingId, i) \in DOMAIN store
          /\ store[BatchKey(onboardingId, i)].val.status = "completed"

\* C29: a status query of an accepted job of which every batch has reported
\* completed, a job of zero batches included, reports the job as completed.
C29_CompletedWhenEveryBatchCompleted ==
    [][(lastPoll' # lastPoll /\ EveryBatchReportedCompleted(lastPoll'[1].onboardingId)) =>
          lastPoll'[1].status = "completed"]_vars

=============================================================================
